---- MODULE Spec2Model ----
(***************************************************************************)
(* proxyd start-up and shutdown: Start(config) of src/proxyd/proxyd.go and *)
(* the shutdown closure it returns, with the goroutines Start launches     *)
(* (RPC listener, WS listener, metrics listener, LVC refreshers, consensus *)
(* pollers) and the package-level error singletons it writes.              *)
(***************************************************************************)
EXTENDS Integers, Sequences, FiniteSets, TLC

\* ------------------------------------------------------------------ bounds
MaxBackends == 2
MaxGroups == 2

\* time.Second in nanoseconds (time.Duration is an int64 of nanoseconds)
Second == 1000000000

BackendNames == 1..MaxBackends
GroupNames == 1..MaxGroups

\* ---------------------------------------------------------- configurations
\* Names of backends and groups are positive integers; 0 is the empty name "".

DefaultRateMsg == "over rate limit"
DefaultWhitelistMsg == "rpc method is not whitelisted"
DefaultBatchMsg == "too many RPC calls in batch request"

BaseBackend ==
    [RPCURL |-> "http://rpc", WSURL |-> "", Password |-> "", CAFile |-> ""]

BaseGroup ==
    [Backends |-> <<1>>, ConsensusAware |-> FALSE, ConsensusAsyncHandler |-> "",
     ConsensusBanPeriod |-> 0, ConsensusMaxUpdateThreshold |-> 0,
     ConsensusMaxBlockLag |-> 0, ConsensusMinPeerCount |-> 0]

NilAuth == [isNil |-> TRUE, m |-> [s \in {} |-> ""]]

AuthMap(f) == [isNil |-> FALSE, m |-> f]

BaseConfig ==
    [Backends |-> [b \in BackendNames |-> BaseBackend],
     BackendGroups |-> [g \in GroupNames |-> BaseGroup],
     RPCMethodMappings |-> [m \in {"eth_chainId"} |-> 1],
     WSBackendGroup |-> 0,
     Authentication |-> NilAuth,
     Redis |-> [URL |-> ""],
     RateLimit |-> [UseRedis |-> FALSE, EnableBackendRateLimiter |-> FALSE,
                    ErrorMessage |-> ""],
     WhitelistErrorMessage |-> "",
     BatchConfig |-> [ErrorMessage |-> ""],
     SenderRateLimit |-> [Enabled |-> FALSE, Limit |-> 0, Interval |-> 0],
     Cache |-> [Enabled |-> FALSE, BlockSyncRPCURL |-> ""],
     Metrics |-> [Enabled |-> FALSE],
     Server |-> [RPCPort |-> 8545, WSPort |-> 0]]

\* The backend lists a group may name: nothing, one backend, or all of them.
GroupBackendLists ==
    {<<>>} \cup {<<b>> : b \in BackendNames} \cup {[i \in 1..MaxBackends |-> i]}

\* backends x backend groups (dangling and empty backend references)
BackendTopologyConfigs ==
    {[BaseConfig EXCEPT !.Backends = bs, !.BackendGroups = gs] :
        bs \in UNION {[S -> {BaseBackend, [BaseBackend EXCEPT !.RPCURL = ""]}] :
                        S \in SUBSET BackendNames},
        gs \in UNION {[G -> {[BaseGroup EXCEPT !.Backends = l] : l \in GroupBackendLists}] :
                        G \in {{}, {1}, GroupNames}}}

\* groups x method mappings x WS group x WS port (dangling group references)
GroupTopologyConfigs ==
    {[BaseConfig EXCEPT !.BackendGroups = [g \in G |-> BaseGroup],
                        !.RPCMethodMappings = mp,
                        !.WSBackendGroup = ws,
                        !.Server.WSPort = wp] :
        G \in SUBSET GroupNames,
        mp \in {[m \in {} |-> 0]} \cup {[m \in {"eth_chainId"} |-> g] : g \in GroupNames},
        ws \in {0} \cup GroupNames,
        wp \in {0, 8546}}

AuthConfigs ==
    {[BaseConfig EXCEPT !.Authentication = a] :
        a \in {NilAuth,
               AuthMap([s \in {} |-> ""]),
               AuthMap([s \in {"secret"} |-> "alice"]),
               AuthMap([s \in {"none"} |-> "alice"]),
               AuthMap([s \in {"secret"} |-> "none"]),
               AuthMap([s \in {"secret", "$UNSET"} |-> "alice"])}}

RedisConfigs ==
    {[BaseConfig EXCEPT !.Redis.URL = u,
                        !.RateLimit.UseRedis = ur,
                        !.RateLimit.EnableBackendRateLimiter = en,
                        !.Cache = [Enabled |-> ce, BlockSyncRPCURL |-> "http://sync"]] :
        u \in {"", "redis://r", "$SET", "$UNSET"}, ur \in BOOLEAN, en \in BOOLEAN, ce \in BOOLEAN}

MessageConfigs ==
    {[BaseConfig EXCEPT !.RateLimit.ErrorMessage = r,
                        !.WhitelistErrorMessage = w,
                        !.BatchConfig.ErrorMessage = b,
                        !.Backends = bs] :
        r \in {"", "custom rate"}, w \in {"", "custom whitelist"},
        b \in {"", "custom batch"},
        bs \in {BaseConfig.Backends, [x \in {} |-> BaseBackend]}}

SenderConfigs ==
    {[BaseConfig EXCEPT !.SenderRateLimit = [Enabled |-> e, Limit |-> l, Interval |-> i]] :
        e \in BOOLEAN, l \in {-1, 0, 5}, i \in {-1, 0, Second - 1, Second, 2 * Second}}

CacheConfigs ==
    {[BaseConfig EXCEPT !.Cache = [Enabled |-> e, BlockSyncRPCURL |-> u],
                        !.Metrics.Enabled = me] :
        e \in BOOLEAN, u \in {"", "http://sync", "$UNSET"}, me \in BOOLEAN}

ListenerConfigs ==
    {[BaseConfig EXCEPT !.Server = [RPCPort |-> rp, WSPort |-> wp],
                        !.WSBackendGroup = 1,
                        !.BackendGroups[1].ConsensusAware = aw,
                        !.Cache = [Enabled |-> ce, BlockSyncRPCURL |-> "http://sync"]] :
        rp \in {0, 8545}, wp \in {0, 8546}, ce \in BOOLEAN, aw \in BOOLEAN}

ConsensusValues == {-1, 0, 3}

ConsensusConfigs ==
    {[BaseConfig EXCEPT !.BackendGroups =
          [g \in GroupNames |->
              [BaseGroup EXCEPT !.ConsensusAware = aw[g],
                                !.ConsensusAsyncHandler = IF g = 1 THEN "noop" ELSE "",
                                !.ConsensusBanPeriod = IF g = 1 THEN bp ELSE 3,
                                !.ConsensusMaxUpdateThreshold = IF g = 1 THEN ut ELSE 0,
                                !.ConsensusMaxBlockLag = IF g = 1 THEN bl ELSE 3,
                                !.ConsensusMinPeerCount = IF g = 1 THEN pc0 ELSE -1]]] :
        aw \in [GroupNames -> BOOLEAN],
        bp \in ConsensusValues, ut \in ConsensusValues,
        bl \in ConsensusValues, pc0 \in ConsensusValues}

BackendOptionConfigs ==
    {[BaseConfig EXCEPT !.Backends =
          [b \in BackendNames |->
              IF b = 1 THEN [RPCURL |-> u, WSURL |-> w, Password |-> p, CAFile |-> ca]
                       ELSE BaseBackend]] :
        u \in {"http://rpc", "$SET", "$UNSET"}, w \in {"", "$UNSET"},
        p \in {"", "pw", "$UNSET"}, ca \in {"", "ca.pem"}}

Configs ==
    BackendTopologyConfigs \cup GroupTopologyConfigs \cup AuthConfigs \cup RedisConfigs
    \cup MessageConfigs \cup SenderConfigs \cup CacheConfigs \cup ListenerConfigs
    \cup ConsensusConfigs \cup BackendOptionConfigs


\* ------------------------------------------------------------------- state
VARIABLES
    pc,                      \* position of the caller: in Start, returned, in shutdownFunc
    proc,                    \* "running", or "exited" once log.Crit ended the process
    config,                  \* the *Config passed to the current Start call
    ret,                     \* what Start returned: (srv, shutdownFunc, err)
    ErrOverRateLimit,        \* package-level ErrOverRateLimit.Message
    ErrMethodNotWhitelisted, \* package-level ErrMethodNotWhitelisted.Message
    ErrTooManyBatchRequests, \* package-level ErrTooManyBatchRequests.Message
    redisClient,             \* "nil" | "client"
    lim,                     \* the BackendRateLimiter: [kind, id]
    limAllocs,               \* limiter instances constructed by this call
    backendsByName,          \* name -> *Backend
    backendNames,            \* names appended beside backendsByName
    backendGroups,           \* name -> *BackendGroup [Name, Backends, Consensus]
    wsBackendGroup,          \* name of the WS group, 0 when nil
    resolvedAuth,            \* resolved secret -> alias, or nil
    rpcCache,                \* "nil" | "cache"
    ethClient,               \* "nil" | "open" | "closed"
    blockNumLVC,             \* "nil" | "running" | "stopped"
    gasPriceLVC,             \* "nil" | "running" | "stopped"
    srv,                     \* "nil" | "created" | "shutdown"
    metricsServer,           \* "none" | "spawned"
    rpcListener,             \* "none" | "spawned" | "listening" | "failed" | "closed"
    wsListener,              \* same, for the WS listener goroutine
    pollers,                 \* the consensus pollers constructed, in order
    visited,                 \* groups the poller loop has passed
    flushed,                 \* FlushBackendWSConns: "no" | "ok" | "error"
    flushedNames,            \* the names handed to FlushBackendWSConns
    routed                   \* the last request forwarded: [bg, consensus], bg 0 when none

globalVars == <<ErrOverRateLimit, ErrMethodNotWhitelisted, ErrTooManyBatchRequests>>
limVars == <<redisClient, lim, limAllocs>>
topoVars == <<backendsByName, backendNames, backendGroups, wsBackendGroup>>
cacheVars == <<rpcCache, blockNumLVC, gasPriceLVC>>
srvVars == <<srv, metricsServer, rpcListener, wsListener>>
pollVars == <<pollers, visited>>
flushVars == <<flushed, flushedNames>>

vars == <<pc, proc, config, ret, globalVars, limVars, topoVars, resolvedAuth,
          cacheVars, ethClient, srvVars, pollVars, flushVars, routed>>

\* No request has been forwarded.
NoRouted == [bg |-> 0, consensus |-> 0]

NoRet == [srv |-> "nil", shutdown |-> "nil", err |-> "none"]

NilLimiter == [kind |-> "nil", id |-> 0]

\* The state of a call's locals before its first statement.
FreshLocals ==
    /\ ret' = NoRet
    /\ redisClient' = "nil"
    /\ lim' = NilLimiter
    /\ limAllocs' = 0
    /\ backendsByName' = [b \in {} |-> 0]
    /\ backendNames' = {}
    /\ backendGroups' = [g \in {} |-> 0]
    /\ wsBackendGroup' = 0
    /\ resolvedAuth' = NilAuth
    /\ rpcCache' = "nil"
    /\ ethClient' = "nil"
    /\ blockNumLVC' = "nil"
    /\ gasPriceLVC' = "nil"
    /\ srv' = "nil"
    /\ metricsServer' = "none"
    /\ rpcListener' = "none"
    /\ wsListener' = "none"
    /\ pollers' = <<>>
    /\ visited' = {}
    /\ flushed' = "no"
    /\ flushedNames' = {}
    /\ routed' = NoRouted

Init ==
    /\ pc = "idle"
    /\ proc = "running"
    /\ config = BaseConfig
    /\ ret = NoRet
    /\ ErrOverRateLimit = DefaultRateMsg
    /\ ErrMethodNotWhitelisted = DefaultWhitelistMsg
    /\ ErrTooManyBatchRequests = DefaultBatchMsg
    /\ redisClient = "nil"
    /\ lim = NilLimiter
    /\ limAllocs = 0
    /\ backendsByName = [b \in {} |-> 0]
    /\ backendNames = {}
    /\ backendGroups = [g \in {} |-> 0]
    /\ wsBackendGroup = 0
    /\ resolvedAuth = NilAuth
    /\ rpcCache = "nil"
    /\ ethClient = "nil"
    /\ blockNumLVC = "nil"
    /\ gasPriceLVC = "nil"
    /\ srv = "nil"
    /\ metricsServer = "none"
    /\ rpcListener = "none"
    /\ wsListener = "none"
    /\ pollers = <<>>
    /\ visited = {}
    /\ flushed = "no"
    /\ flushedNames = {}
    /\ routed = NoRouted

\* ----------------------------------------------------------------- helpers

\* ReadFromEnvOrConfig: a value starting with "$" names an environment
\* variable; the model's environment sets $SET and leaves $UNSET unset.
ReadFromEnvOrConfig(value) ==
    CASE value = "$SET" -> [val |-> "value-of-SET", err |-> "nil"]
      [] value = "$UNSET" -> [val |-> "", err |-> "config env var not found"]
      [] OTHER -> [val |-> value, err |-> "nil"]

\* Every return statement of Start: the deferred ethClient.Close() of line
\* 246 runs when it was registered, and the caller gets (srv, shutdown, err).
Return(s, sd, e) ==
    /\ pc' = "returned"
    /\ ret' = [srv |-> s, shutdown |-> sd, err |-> e]
    /\ ethClient' = IF ethClient = "open" THEN "closed" ELSE ethClient

Fail(e) == Return("nil", "nil", e)

\* --------------------------------------------------------- Start, in steps

\* The caller invokes Start(config).
StartCall ==
    /\ proc = "running" /\ pc = "idle"
    /\ \E c \in Configs : config' = c
    /\ pc' = "topology"
    /\ FreshLocals
    /\ UNCHANGED <<proc, globalVars>>

\* The caller is done with a call (Start returned an error, or the shutdown
\* function has run) and may call Start again in the same process: the
\* call's locals are gone, the package-level variables stay as they are.
CallerDone ==
    /\ proc = "running"
    /\ \/ pc = "returned" /\ ret.err # "nil"
       \/ pc = "sd_done"
    /\ pc' = "idle"
    /\ config' = BaseConfig
    /\ FreshLocals
    /\ UNCHANGED <<proc, globalVars>>

\* TopologyError without the check of line 28
TopologyErrorWithoutMappings(c) ==
    IF Cardinality(DOMAIN c.Backends) = 0 THEN "must define at least one backend"
    ELSE IF Cardinality(DOMAIN c.BackendGroups) = 0
        THEN "must define at least one backend group"
    ELSE "nil"

\* lines 22-30
TopologyError(c) ==
    IF Cardinality(DOMAIN c.Backends) = 0 THEN "must define at least one backend"
    ELSE IF Cardinality(DOMAIN c.BackendGroups) = 0
        THEN "must define at least one backend group"
    ELSE IF Cardinality(DOMAIN c.RPCMethodMappings) = 0
        THEN "must define at least one RPC method mapping"
    ELSE "nil"

\* lines 32-36: the loop variable ranges over the KEYS of the map
AuthKeyError(c) ==
    IF \E authKey \in DOMAIN c.Authentication.m : authKey = "none"
    THEN "cannot use none as an auth key"
    ELSE "nil"

StartValidate ==
    /\ proc = "running" /\ pc = "topology"
    /\ IF TopologyError(config) # "nil" THEN Fail(TopologyError(config))
       ELSE IF AuthKeyError(config) # "nil" THEN Fail(AuthKeyError(config))
       ELSE /\ pc' = "redis"
            /\ UNCHANGED <<ret, ethClient>>
    /\ UNCHANGED <<proc, config, globalVars, limVars, topoVars, resolvedAuth,
                   cacheVars, srvVars, pollVars, flushVars>>
    /\ UNCHANGED routed

\* lines 38-52; NewRedisClient may fail (connection options, ping)
StartRedis ==
    /\ proc = "running" /\ pc = "redis"
    /\ IF config.Redis.URL # ""
       THEN LET r == ReadFromEnvOrConfig(config.Redis.URL) IN
            IF r.err # "nil"
            THEN Fail(r.err) /\ UNCHANGED redisClient
            ELSE \/ Fail("redis: cannot connect") /\ UNCHANGED redisClient
                 \/ /\ redisClient' = "client"
                    /\ pc' = "limiter"
                    /\ UNCHANGED <<ret, ethClient>>
       ELSE IF config.RateLimit.UseRedis
            THEN /\ Fail("must specify a Redis URL if UseRedis is true in rate limit config")
                 /\ UNCHANGED redisClient
            ELSE /\ pc' = "limiter"
                 /\ UNCHANGED <<ret, ethClient, redisClient>>
    /\ UNCHANGED <<proc, config, globalVars, lim, limAllocs, topoVars, resolvedAuth,
                   cacheVars, srvVars, pollVars, flushVars>>
    /\ UNCHANGED routed

\* LimiterKind choosing the Redis limiter by rate_limit.use_redis
LimiterKindByUseRedis(c, client) ==
    IF c.RateLimit.EnableBackendRateLimiter
    THEN IF c.RateLimit.UseRedis THEN "redis" ELSE "local"
    ELSE "noop"

\* lines 54-65: which limiter Start constructs
LimiterKind(c, client) ==
    IF c.RateLimit.EnableBackendRateLimiter
    THEN IF client # "nil" THEN "redis" ELSE "local"
    ELSE "noop"

\* noopBackendRateLimiter is the package-level instance (id 0); the Redis and
\* the local limiter are constructed here, once.
StartLimiter ==
    /\ proc = "running" /\ pc = "limiter"
    /\ LET k == LimiterKind(config, redisClient) IN
       IF k = "noop"
       THEN lim' = [kind |-> "noop", id |-> 0] /\ UNCHANGED limAllocs
       ELSE lim' = [kind |-> k, id |-> limAllocs + 1] /\ limAllocs' = limAllocs + 1
    /\ pc' = "messages"
    /\ UNCHANGED <<proc, config, ret, globalVars, redisClient, topoVars, resolvedAuth,
                   cacheVars, ethClient, srvVars, pollVars, flushVars>>
    /\ UNCHANGED routed

\* lines 71-79: a non-empty configured message is written into the singleton
Message(configured, current) == IF configured # "" THEN configured ELSE current

StartMessages ==
    /\ proc = "running" /\ pc = "messages"
    /\ ErrOverRateLimit' = Message(config.RateLimit.ErrorMessage, ErrOverRateLimit)
    /\ ErrMethodNotWhitelisted' =
           Message(config.WhitelistErrorMessage, ErrMethodNotWhitelisted)
    /\ ErrTooManyBatchRequests' =
           Message(config.BatchConfig.ErrorMessage, ErrTooManyBatchRequests)
    /\ pc' = "sender"
    /\ UNCHANGED <<proc, config, ret, limVars, topoVars, resolvedAuth,
                   cacheVars, ethClient, srvVars, pollVars, flushVars>>
    /\ UNCHANGED routed

\* SenderRateLimitError accepting a limit of 0
SenderRateLimitErrorOffByOne(c) ==
    IF c.SenderRateLimit.Enabled
    THEN IF c.SenderRateLimit.Limit < 0
         THEN "limit in sender_rate_limit must be > 0"
         ELSE IF c.SenderRateLimit.Interval < Second
         THEN "interval in sender_rate_limit must be >= 1s"
         ELSE "nil"
    ELSE "nil"

\* lines 81-88
SenderRateLimitError(c) ==
    IF c.SenderRateLimit.Enabled
    THEN IF c.SenderRateLimit.Limit <= 0
         THEN "limit in sender_rate_limit must be > 0"
         ELSE IF c.SenderRateLimit.Interval < Second
         THEN "interval in sender_rate_limit must be >= 1s"
         ELSE "nil"
    ELSE "nil"

StartSender ==
    /\ proc = "running" /\ pc = "sender"
    /\ IF SenderRateLimitError(config) # "nil"
       THEN Fail(SenderRateLimitError(config))
       ELSE pc' = "backends" /\ UNCHANGED <<ret, ethClient>>
    /\ UNCHANGED <<proc, config, globalVars, limVars, topoVars, resolvedAuth,
                   cacheVars, srvVars, pollVars, flushVars>>
    /\ UNCHANGED routed


\* lines 101-151 for one backend: the first error its configuration raises.
\* tlsOK: whether CreateTLSClient/ParseKeyPair can read the files it names.
BackendError(name, cfg, tlsOK) ==
    IF ReadFromEnvOrConfig(cfg.RPCURL).err # "nil" THEN ReadFromEnvOrConfig(cfg.RPCURL).err
    ELSE IF ReadFromEnvOrConfig(cfg.WSURL).err # "nil"
        THEN ReadFromEnvOrConfig(cfg.WSURL).err
    ELSE IF ReadFromEnvOrConfig(cfg.RPCURL).val = ""
        THEN "must define an RPC URL for backend"
    ELSE IF cfg.Password # "" /\ ReadFromEnvOrConfig(cfg.Password).err # "nil"
        THEN ReadFromEnvOrConfig(cfg.Password).err
    ELSE IF cfg.CAFile # "" /\ ~tlsOK THEN "tls: cannot read key material"
    ELSE "nil"

\* line 162: the limiter handed to NewBackend
BackendLimiter(name) == lim

\* line 162: a backend, by the arguments it is constructed from
NewBackend(name, cfg) ==
    [Name |-> name,
     rpcURL |-> ReadFromEnvOrConfig(cfg.RPCURL).val,
     wsURL |-> ReadFromEnvOrConfig(cfg.WSURL).val,
     rateLimiter |-> BackendLimiter(name)]

\* lines 96-166. Go ranges over the map in an unspecified order: when some
\* backend raises an error, any set of the valid ones was built before it.
StartBackends ==
    /\ proc = "running" /\ pc = "backends"
    /\ \E tlsOK \in BOOLEAN :
        LET bad == {n \in DOMAIN config.Backends :
                        BackendError(n, config.Backends[n], tlsOK) # "nil"}
            good == DOMAIN config.Backends \ bad
        IN  IF bad # {}
            THEN \E n \in bad, built \in SUBSET good :
                    /\ Fail(BackendError(n, config.Backends[n], tlsOK))
                    /\ backendsByName' = [b \in built |-> NewBackend(b, config.Backends[b])]
                    /\ backendNames' = built
            ELSE /\ backendsByName' = [b \in good |-> NewBackend(b, config.Backends[b])]
                 /\ backendNames' = good
                 /\ pc' = "groups"
                 /\ UNCHANGED <<ret, ethClient>>
    /\ UNCHANGED <<proc, config, globalVars, limVars, backendGroups, wsBackendGroup,
                   resolvedAuth, cacheVars, srvVars, pollVars, flushVars>>
    /\ UNCHANGED routed

\* UndefinedBackends without the lookup of line 172
UndefinedBackendsUnchecked(c, byName) == {}

\* lines 171-175: the (group, position) pairs naming a backend that was not built
UndefinedBackends(c, byName) ==
    {r \in UNION {{<<g, i>> : i \in DOMAIN c.BackendGroups[g].Backends} :
                    g \in DOMAIN c.BackendGroups} :
        c.BackendGroups[r[1]].Backends[r[2]] \notin DOMAIN byName}

\* lines 168-182
StartGroups ==
    /\ proc = "running" /\ pc = "groups"
    /\ LET undefined == UndefinedBackends(config, backendsByName)
       IN  IF undefined # {}
           THEN /\ Fail("backend is not defined")
                /\ UNCHANGED backendGroups
           ELSE /\ backendGroups' =
                      [g \in DOMAIN config.BackendGroups |->
                          [Name |-> g,
                           Backends |-> config.BackendGroups[g].Backends,
                           Consensus |-> 0]]
                /\ pc' = "wsgroup"
                /\ UNCHANGED <<ret, ethClient>>
    /\ UNCHANGED <<proc, config, globalVars, limVars, backendsByName, backendNames,
                   wsBackendGroup, resolvedAuth, cacheVars, srvVars, pollVars, flushVars>>
    /\ UNCHANGED routed


\* lines 184-194: the error of the WS group lookup, given the groups built
WSGroupError(c, groups) ==
    IF c.WSBackendGroup # 0 /\ c.WSBackendGroup \notin DOMAIN groups
    THEN "ws backend group does not exist"
    ELSE IF c.WSBackendGroup = 0 /\ c.Server.WSPort # 0
    THEN "a ws port was defined, but no ws group was defined"
    ELSE "nil"

StartWSGroup ==
    /\ proc = "running" /\ pc = "wsgroup"
    /\ IF WSGroupError(config, backendGroups) # "nil"
       THEN Fail(WSGroupError(config, backendGroups)) /\ UNCHANGED wsBackendGroup
       ELSE /\ wsBackendGroup' = config.WSBackendGroup
            /\ pc' = "mappings"
            /\ UNCHANGED <<ret, ethClient>>
    /\ UNCHANGED <<proc, config, globalVars, limVars, backendsByName, backendNames,
                   backendGroups, resolvedAuth, cacheVars, srvVars, pollVars, flushVars>>
    /\ UNCHANGED routed

\* lines 196-200: the methods mapped to a group that was not built
UndefinedGroups(c, groups) ==
    {m \in DOMAIN c.RPCMethodMappings : c.RPCMethodMappings[m] \notin DOMAIN groups}

StartMappings ==
    /\ proc = "running" /\ pc = "mappings"
    /\ IF UndefinedGroups(config, backendGroups) # {}
       THEN Fail("undefined backend group")
       ELSE pc' = "auth" /\ UNCHANGED <<ret, ethClient>>
    /\ UNCHANGED <<proc, config, globalVars, limVars, topoVars, resolvedAuth,
                   cacheVars, srvVars, pollVars, flushVars>>
    /\ UNCHANGED routed

\* lines 202-213: resolvedAuth[resolvedSecret] = alias
ResolveAuth(auth) ==
    IF auth.isNil THEN NilAuth
    ELSE AuthMap([k \in {ReadFromEnvOrConfig(s).val : s \in DOMAIN auth.m} |->
                    auth.m[CHOOSE s \in DOMAIN auth.m : ReadFromEnvOrConfig(s).val = k]])

StartAuth ==
    /\ proc = "running" /\ pc = "auth"
    /\ LET bad == {s \in DOMAIN config.Authentication.m :
                        ReadFromEnvOrConfig(s).err # "nil"}
       IN  IF ~config.Authentication.isNil /\ bad # {}
           THEN /\ \E s \in bad : Fail(ReadFromEnvOrConfig(s).err)
                /\ UNCHANGED resolvedAuth
           ELSE /\ resolvedAuth' = ResolveAuth(config.Authentication)
                /\ pc' = "cache"
                /\ UNCHANGED <<ret, ethClient>>
    /\ UNCHANGED <<proc, config, globalVars, limVars, topoVars,
                   cacheVars, srvVars, pollVars, flushVars>>
    /\ UNCHANGED routed

\* lines 389-392: makeUint64LastValueFn constructs the LVC and starts it
makeUint64LastValueFn == "running"

\* lines 220-251; ethclient.Dial may fail. The Close deferred at line 246
\* runs when Start returns (see Return).
StartCache ==
    /\ proc = "running" /\ pc = "cache"
    /\ IF ~config.Cache.Enabled
       THEN /\ pc' = "server"
            /\ UNCHANGED <<ret, ethClient, cacheVars>>
       ELSE IF config.Cache.BlockSyncRPCURL = ""
       THEN Fail("block sync node required for caching") /\ UNCHANGED cacheVars
       ELSE IF ReadFromEnvOrConfig(config.Cache.BlockSyncRPCURL).err # "nil"
       THEN /\ Fail(ReadFromEnvOrConfig(config.Cache.BlockSyncRPCURL).err)
            /\ UNCHANGED cacheVars
       ELSE \/ Fail("dial: cannot connect") /\ UNCHANGED cacheVars
            \/ /\ ethClient' = "open"
               /\ blockNumLVC' = makeUint64LastValueFn
               /\ gasPriceLVC' = makeUint64LastValueFn
               /\ rpcCache' = IF redisClient = "nil" THEN "memory" ELSE "redis"
               /\ pc' = "server"
               /\ UNCHANGED ret
    /\ UNCHANGED <<proc, config, globalVars, limVars, topoVars, resolvedAuth,
                   srvVars, pollVars, flushVars>>
    /\ UNCHANGED routed

\* lines 253-272; NewServer may fail
StartServer ==
    /\ proc = "running" /\ pc = "server"
    /\ \/ Fail("error creating server") /\ UNCHANGED srv
       \/ /\ srv' = "created"
          /\ pc' = "metrics"
          /\ UNCHANGED <<ret, ethClient>>
    /\ UNCHANGED <<proc, config, globalVars, limVars, topoVars, resolvedAuth,
                   cacheVars, metricsServer, rpcListener, wsListener, pollVars, flushVars>>
    /\ UNCHANGED routed

\* lines 274-282: the metrics listener goroutine
StartMetrics ==
    /\ proc = "running" /\ pc = "metrics"
    /\ metricsServer' = IF config.Metrics.Enabled THEN "spawned" ELSE metricsServer
    /\ pc' = "spawnRPC"
    /\ UNCHANGED <<proc, config, ret, globalVars, limVars, topoVars, resolvedAuth,
                   cacheVars, ethClient, srv, rpcListener, wsListener, pollVars, flushVars>>
    /\ UNCHANGED routed

\* lines 287-299: the timer is armed and the RPC listener goroutine launched
StartSpawnRPC ==
    /\ proc = "running" /\ pc = "spawnRPC"
    /\ rpcListener' = IF config.Server.RPCPort # 0 THEN "spawned" ELSE rpcListener
    /\ pc' = "spawnWS"
    /\ UNCHANGED <<proc, config, ret, globalVars, limVars, topoVars, resolvedAuth,
                   cacheVars, ethClient, srv, metricsServer, wsListener, pollVars, flushVars>>
    /\ UNCHANGED routed

\* lines 301-313
StartSpawnWS ==
    /\ proc = "running" /\ pc = "spawnWS"
    /\ wsListener' = IF config.Server.WSPort # 0 THEN "spawned" ELSE wsListener
    /\ pc' = "pollers"
    /\ UNCHANGED <<proc, config, ret, globalVars, limVars, topoVars, resolvedAuth,
                   cacheVars, ethClient, srv, metricsServer, rpcListener, pollVars, flushVars>>
    /\ UNCHANGED routed


\* ConsensusOpts testing the block lag with != 0 where the code tests > 0
ConsensusOptsNonZero(bgcfg) ==
    {[opt |-> "AsyncHandler", val |-> 0] : x \in {h \in {bgcfg.ConsensusAsyncHandler} : h = "noop"}}
    \cup {[opt |-> "BanPeriod", val |-> v] : v \in {w \in {bgcfg.ConsensusBanPeriod} : w > 0}}
    \cup {[opt |-> "MaxUpdateThreshold", val |-> v] :
            v \in {w \in {bgcfg.ConsensusMaxUpdateThreshold} : w > 0}}
    \cup {[opt |-> "MaxBlockLag", val |-> v] :
            v \in {w \in {bgcfg.ConsensusMaxBlockLag} : w # 0}}
    \cup {[opt |-> "MinPeerCount", val |-> v] :
            v \in {w \in {bgcfg.ConsensusMinPeerCount} : w > 0}}

\* lines 320-336: the options handed to NewConsensusPoller for one group
ConsensusOpts(bgcfg) ==
    {[opt |-> "AsyncHandler", val |-> 0] : x \in {h \in {bgcfg.ConsensusAsyncHandler} : h = "noop"}}
    \cup {[opt |-> "BanPeriod", val |-> v] : v \in {w \in {bgcfg.ConsensusBanPeriod} : w > 0}}
    \cup {[opt |-> "MaxUpdateThreshold", val |-> v] :
            v \in {w \in {bgcfg.ConsensusMaxUpdateThreshold} : w > 0}}
    \cup {[opt |-> "MaxBlockLag", val |-> v] :
            v \in {w \in {bgcfg.ConsensusMaxBlockLag} : w > 0}}
    \cup {[opt |-> "MinPeerCount", val |-> v] :
            v \in {w \in {bgcfg.ConsensusMinPeerCount} : w > 0}}

\* NewConsensusPoller(bg, opts...): a poller over group bg, running, its
\* defaults overridden by exactly the options given.
NewConsensusPoller(bg, copts) ==
    [bg |-> bg, opts |-> copts, state |-> "running"]

\* line 317: whether the loop builds a poller for the group
WantsPoller(bgcfg) == bgcfg.ConsensusAware

\* lines 315-341, one iteration; Go ranges over backendGroups in any order
StartPoller ==
    /\ proc = "running" /\ pc = "pollers"
    /\ \E bgName \in DOMAIN backendGroups \ visited :
        LET bgcfg == config.BackendGroups[bgName] IN
        /\ visited' = visited \cup {bgName}
        /\ IF WantsPoller(bgcfg)
           THEN /\ pollers' = Append(pollers,
                                     NewConsensusPoller(bgName, ConsensusOpts(bgcfg)))
                /\ backendGroups' =
                      [backendGroups EXCEPT ![bgName].Consensus = Len(pollers) + 1]
           ELSE UNCHANGED <<pollers, backendGroups>>
    /\ UNCHANGED <<pc, proc, config, ret, globalVars, limVars, backendsByName,
                   backendNames, wsBackendGroup, resolvedAuth, cacheVars, ethClient,
                   srvVars, flushVars>>
    /\ UNCHANGED routed

\* lines 343-361: the 10ms timer fires, the shutdown closure is built and
\* Start returns (srv, shutdownFunc, nil)
StartReturn ==
    /\ proc = "running" /\ pc = "pollers"
    /\ visited = DOMAIN backendGroups
    /\ Return("created", "shutdownFunc", "nil")
    /\ UNCHANGED <<proc, config, globalVars, limVars, topoVars, resolvedAuth,
                   cacheVars, srvVars, pollVars, flushVars>>
    /\ UNCHANGED routed

\* ------------------------------------------------ the goroutines of Start

\* lines 290-298: RPCListenAndServe binds the port and serves. When the
\* server was shut down first it returns http.ErrServerClosed; any other
\* error (the port is in use) reaches log.Crit, which ends the process.
RPCListen ==
    /\ proc = "running" /\ rpcListener = "spawned"
    /\ IF srv = "shutdown"
       THEN rpcListener' = "closed" /\ UNCHANGED proc
       ELSE \/ rpcListener' = "listening" /\ UNCHANGED proc
            \/ rpcListener' = "failed" /\ proc' = "exited"
    /\ UNCHANGED <<pc, config, ret, globalVars, limVars, topoVars, resolvedAuth,
                   cacheVars, ethClient, srv, metricsServer, wsListener, pollVars,
                   flushVars>>
    /\ UNCHANGED routed

\* lines 302-310: the same for the WS listener
WSListen ==
    /\ proc = "running" /\ wsListener = "spawned"
    /\ IF srv = "shutdown"
       THEN wsListener' = "closed" /\ UNCHANGED proc
       ELSE \/ wsListener' = "listening" /\ UNCHANGED proc
            \/ wsListener' = "failed" /\ proc' = "exited"
    /\ UNCHANGED <<pc, config, ret, globalVars, limVars, topoVars, resolvedAuth,
                   cacheVars, ethClient, srv, metricsServer, rpcListener, pollVars,
                   flushVars>>
    /\ UNCHANGED routed

\* lines 277-281: the metrics listener; its error is logged, nothing more
MetricsListen ==
    /\ proc = "running" /\ metricsServer = "spawned"
    /\ \/ metricsServer' = "listening"
       \/ metricsServer' = "failed"
    /\ UNCHANGED <<pc, proc, config, ret, globalVars, limVars, topoVars, resolvedAuth,
                   cacheVars, ethClient, srv, rpcListener, wsListener, pollVars,
                   flushVars>>
    /\ UNCHANGED routed

\* The group a request forwarded through bg finds there: the group's name
\* and the Consensus field as the handler reads it.
Forwarded(bg) == [bg |-> bg, consensus |-> backendGroups[bg].Consensus]

\* An inbound RPC request, once RPCListenAndServe is accepting: the server
\* resolves the method's group from the mappings and groups it was built
\* with (lines 254, 257) and forwards the request through that group.
RPCServe ==
    /\ proc = "running" /\ rpcListener = "listening" /\ srv = "created"
    /\ \E method \in DOMAIN config.RPCMethodMappings :
            routed' = Forwarded(config.RPCMethodMappings[method])
    /\ UNCHANGED <<pc, proc, config, ret, globalVars, limVars, topoVars, resolvedAuth,
                   cacheVars, ethClient, srvVars, pollVars, flushVars>>

\* An inbound WS message, once WSListenAndServe is accepting: it is proxied
\* through the WS backend group the server was built with (line 255).
WSServe ==
    /\ proc = "running" /\ wsListener = "listening" /\ srv = "created"
    /\ wsBackendGroup # 0
    /\ routed' = Forwarded(wsBackendGroup)
    /\ UNCHANGED <<pc, proc, config, ret, globalVars, limVars, topoVars, resolvedAuth,
                   cacheVars, ethClient, srvVars, pollVars, flushVars>>

\* ------------------------------------------------------- the shutdown func

\* EthLastValueCache.Stop(): the LVC is stopped; Stop is idempotent
LVCStop(lvc) == "stopped"

\* ShutdownLVC leaving the LVC as it is
ShutdownLVCSkipped(lvc) == lvc

\* lines 348-353: if lvc != nil { lvc.Stop() }
ShutdownLVC(lvc) == IF lvc # "nil" THEN LVCStop(lvc) ELSE lvc

\* lines 346-350: the caller runs shutdownFunc; blockNumLVC.Stop()
ShutdownBlockNumLVC ==
    /\ proc = "running" /\ pc = "returned" /\ ret.shutdown = "shutdownFunc"
    /\ blockNumLVC' = ShutdownLVC(blockNumLVC)
    /\ pc' = "sd_gasPrice"
    /\ UNCHANGED <<proc, config, ret, globalVars, limVars, topoVars, resolvedAuth,
                   rpcCache, gasPriceLVC, ethClient, srvVars, pollVars, flushVars>>
    /\ UNCHANGED routed

\* lines 351-353: gasPriceLVC.Stop()
ShutdownGasPriceLVC ==
    /\ proc = "running" /\ pc = "sd_gasPrice"
    /\ gasPriceLVC' = ShutdownLVC(gasPriceLVC)
    /\ pc' = "sd_server"
    /\ UNCHANGED <<proc, config, ret, globalVars, limVars, topoVars, resolvedAuth,
                   rpcCache, blockNumLVC, ethClient, srvVars, pollVars, flushVars>>
    /\ UNCHANGED routed

\* Server.Shutdown: both listeners stop accepting and drain, and the
\* consensus poller of every group the server holds is stopped.
ServerShutdownPollers ==
    [i \in DOMAIN pollers |->
        IF \E g \in DOMAIN backendGroups : backendGroups[g].Consensus = i
        THEN [pollers[i] EXCEPT !.state = "stopped"]
        ELSE pollers[i]]

ServerShutdownListener(l) == IF l = "listening" THEN "closed" ELSE l

\* line 354: srv.Shutdown()
ShutdownServer ==
    /\ proc = "running" /\ pc = "sd_server"
    /\ srv' = "shutdown"
    /\ rpcListener' = ServerShutdownListener(rpcListener)
    /\ wsListener' = ServerShutdownListener(wsListener)
    /\ pollers' = ServerShutdownPollers
    /\ pc' = "sd_flush"
    /\ UNCHANGED <<proc, config, ret, globalVars, limVars, topoVars, resolvedAuth,
                   cacheVars, ethClient, metricsServer, visited, flushVars>>
    /\ UNCHANGED routed

\* lines 355-359: lim.FlushBackendWSConns(backendNames); its error is logged
ShutdownFlush ==
    /\ proc = "running" /\ pc = "sd_flush"
    /\ flushedNames' = backendNames
    /\ \/ flushed' = "ok"
       \/ flushed' = "error"
    /\ pc' = "sd_done"
    /\ UNCHANGED <<proc, config, ret, globalVars, limVars, topoVars, resolvedAuth,
                   cacheVars, ethClient, srvVars, pollVars>>
    /\ UNCHANGED routed

\* ----------------------------------------------------------- specification
Next ==
    \/ StartCall
    \/ CallerDone
    \/ StartValidate
    \/ StartRedis
    \/ StartLimiter
    \/ StartMessages
    \/ StartSender
    \/ StartBackends
    \/ StartGroups
    \/ StartWSGroup
    \/ StartMappings
    \/ StartAuth
    \/ StartCache
    \/ StartServer
    \/ StartMetrics
    \/ StartSpawnRPC
    \/ StartSpawnWS
    \/ StartPoller
    \/ StartReturn
    \/ RPCListen
    \/ WSListen
    \/ MetricsListen
    \/ RPCServe
    \/ WSServe
    \/ ShutdownBlockNumLVC
    \/ ShutdownGasPriceLVC
    \/ ShutdownServer
    \/ ShutdownFlush

Spec == Init /\ [][Next]_vars


\* ------------------------------------------------------------------ claims

ShutdownPCs == {"sd_gasPrice", "sd_server", "sd_flush", "sd_done"}

\* Start has returned (srv, shutdownFunc, nil) in the current call
Started == pc \in {"returned"} \cup ShutdownPCs /\ ret.err = "nil"

\* Start has returned an error in the current call
Failed == pc = "returned" /\ ret.err # "nil" /\ ret.srv = "nil" /\ ret.shutdown = "nil"

DanglingBackend(c) ==
    \E g \in DOMAIN c.BackendGroups : \E i \in DOMAIN c.BackendGroups[g].Backends :
        c.BackendGroups[g].Backends[i] \notin DOMAIN c.Backends

DanglingMapping(c) ==
    \E m \in DOMAIN c.RPCMethodMappings : c.RPCMethodMappings[m] \notin DOMAIN c.BackendGroups

DanglingWSGroup(c) ==
    c.WSBackendGroup # 0 /\ c.WSBackendGroup \notin DOMAIN c.BackendGroups

EmptyRPCURL(c) ==
    \E b \in DOMAIN c.Backends : ReadFromEnvOrConfig(c.Backends[b].RPCURL).val = ""

Dangling(c) ==
    DanglingBackend(c) \/ DanglingMapping(c) \/ DanglingWSGroup(c) \/ EmptyRPCURL(c)

\* C1: a Start whose config holds a dangling reference (a group naming an
\* undefined backend, a mapping naming an undefined group, a WS group that is
\* not defined, a backend whose resolved rpc_url is empty) never gets past its
\* validation: no listener is launched, no server is built, and when it
\* returns it returns (nil, nil, err) with err non-nil.
C1_DanglingReferenceFails ==
    (pc # "idle" /\ Dangling(config)) =>
        /\ rpcListener = "none" /\ wsListener = "none"
        /\ srv = "nil"
        /\ pc \in {"topology", "redis", "limiter", "messages", "sender", "backends",
                   "groups", "wsgroup", "mappings", "returned"}
        /\ pc = "returned" => Failed

C1_Witness ==
    /\ Failed
    /\ DanglingBackend(config)
    /\ ~EmptyRPCURL(config) /\ ~DanglingMapping(config) /\ ~DanglingWSGroup(config)
    /\ ret.err = "backend is not defined"
    /\ DOMAIN backendsByName = DOMAIN config.Backends

EmptyTopology(c) ==
    \/ DOMAIN c.Backends = {}
    \/ DOMAIN c.BackendGroups = {}
    \/ DOMAIN c.RPCMethodMappings = {}

\* C2: a Start whose config has no backends, no backend groups or no RPC
\* method mappings returns (nil, nil, err) with err non-nil at its first
\* step, with no Redis client, limiter, backend, group, LVC, chain client,
\* server, listener or poller created.
C2_EmptyTopologyRejected ==
    (pc \notin {"idle", "topology"} /\ EmptyTopology(config)) =>
        /\ Failed
        /\ redisClient = "nil" /\ lim = NilLimiter /\ limAllocs = 0
        /\ DOMAIN backendsByName = {} /\ backendNames = {} /\ DOMAIN backendGroups = {}
        /\ rpcCache = "nil" /\ ethClient = "nil"
        /\ blockNumLVC = "nil" /\ gasPriceLVC = "nil"
        /\ srv = "nil" /\ metricsServer = "none"
        /\ rpcListener = "none" /\ wsListener = "none"
        /\ pollers = <<>>

C2_Witness ==
    /\ Failed
    /\ DOMAIN config.RPCMethodMappings = {}
    /\ DOMAIN config.Backends # {} /\ DOMAIN config.BackendGroups # {}
    /\ ret.err = "must define at least one RPC method mapping"

\* C3: no server is started with "none" as the alias of any secret of its
\* authentication map.
C3_NoneAliasRejected ==
    srv # "nil" => \A secret \in DOMAIN resolvedAuth.m : resolvedAuth.m[secret] # "none"

BadSenderRateLimit(c) ==
    /\ c.SenderRateLimit.Enabled
    /\ c.SenderRateLimit.Limit <= 0 \/ c.SenderRateLimit.Interval < Second

\* C4: with sender rate limiting enabled and limit <= 0 or interval < 1s,
\* Start builds no server and returns (nil, nil, err) with err non-nil; so
\* every server built with sender rate limiting enabled has limit > 0 and
\* interval >= 1s.
C4_SenderRateLimitValidated ==
    /\ (pc # "idle" /\ BadSenderRateLimit(config)) =>
            /\ srv = "nil"
            /\ pc \in {"topology", "redis", "limiter", "messages", "sender", "returned"}
            /\ pc = "returned" => Failed
    /\ (srv # "nil" /\ config.SenderRateLimit.Enabled) =>
            /\ config.SenderRateLimit.Limit > 0
            /\ config.SenderRateLimit.Interval >= Second

C4_Witness ==
    /\ Failed
    /\ config.SenderRateLimit.Enabled
    /\ config.SenderRateLimit.Limit > 0
    /\ config.SenderRateLimit.Interval = Second - 1
    /\ ret.err = "interval in sender_rate_limit must be >= 1s"

\* C5: when the RPC or the WS listener could not be started, Start has not
\* returned a server with a nil error.
C5_ListenerFailurePropagates ==
    (rpcListener = "failed" \/ wsListener = "failed") => ~Started


AwareGroups == {g \in DOMAIN config.BackendGroups : config.BackendGroups[g].ConsensusAware}

C7_ShutdownOrder ==
    /\ (blockNumLVC = "stopped" \/ gasPriceLVC = "stopped") => srv = "shutdown"
    /\ flushed # "no" => (srv = "shutdown" /\ pc \in {"sd_done"})
    /\ pc = "sd_done" => (flushed \in {"ok", "error"} /\ flushedNames = DOMAIN config.Backends)

\* C8: the package-level rate-limit, method-not-whitelisted and
\* batch-too-large messages keep their built-in values whatever Start calls
\* have been made, and the messages in force for a started server are those
\* of its own config: the configured one, or the built-in one when its config
\* gives none.
C8_GlobalMessagesUnchanged ==
    /\ ErrOverRateLimit = DefaultRateMsg
    /\ ErrMethodNotWhitelisted = DefaultWhitelistMsg
    /\ ErrTooManyBatchRequests = DefaultBatchMsg
    /\ Started =>
        /\ config.RateLimit.ErrorMessage = "" => ErrOverRateLimit = DefaultRateMsg
        /\ config.WhitelistErrorMessage = "" => ErrMethodNotWhitelisted = DefaultWhitelistMsg
        /\ config.BatchConfig.ErrorMessage = "" => ErrTooManyBatchRequests = DefaultBatchMsg

\* C8, its second half alone: a server started from a config without a
\* custom rate-limit message answers with the built-in message.
C8_EmptyMessageYieldsDefault ==
    (Started /\ config.RateLimit.ErrorMessage = "") => ErrOverRateLimit = DefaultRateMsg

\* The values of option `name` among the options a poller was built with
Overrides(p, name) == {o.val : o \in {x \in p.opts : x.opt = name}}

Configured(v) == IF v > 0 THEN {v} ELSE {}

\* C9: after a successful Start a group's Consensus field holds a poller
\* iff the group is configured consensus_aware; that poller is the only one
\* constructed over the group and is constructed over that group; and the
\* ban period, max update threshold, max block lag and min peer count
\* override the poller's default exactly when configured > 0, with the
\* configured value.
C9_PollerPerConsensusAwareGroup ==
    Started =>
        /\ DOMAIN backendGroups = DOMAIN config.BackendGroups
        /\ Len(pollers) = Cardinality(AwareGroups)
        /\ \A g \in DOMAIN backendGroups :
            LET bgcfg == config.BackendGroups[g]
                cp == backendGroups[g].Consensus
            IN  /\ cp # 0 <=> bgcfg.ConsensusAware
                /\ cp # 0 =>
                    /\ cp \in DOMAIN pollers
                    /\ pollers[cp].bg = g
                    /\ {i \in DOMAIN pollers : pollers[i].bg = g} = {cp}
                    /\ Overrides(pollers[cp], "BanPeriod") = Configured(bgcfg.ConsensusBanPeriod)
                    /\ Overrides(pollers[cp], "MaxUpdateThreshold") =
                            Configured(bgcfg.ConsensusMaxUpdateThreshold)
                    /\ Overrides(pollers[cp], "MaxBlockLag") =
                            Configured(bgcfg.ConsensusMaxBlockLag)
                    /\ Overrides(pollers[cp], "MinPeerCount") =
                            Configured(bgcfg.ConsensusMinPeerCount)

C9_Witness ==
    /\ Started /\ pc = "returned"
    /\ AwareGroups = {1}
    /\ Cardinality(DOMAIN backendGroups) > 1
    /\ config.BackendGroups[1].ConsensusBanPeriod > 0
    /\ config.BackendGroups[1].ConsensusMaxUpdateThreshold = 0
    /\ config.BackendGroups[1].ConsensusMaxBlockLag < 0
    /\ backendGroups[1].Consensus = 1
    /\ Overrides(pollers[1], "BanPeriod") = {config.BackendGroups[1].ConsensusBanPeriod}
    /\ Overrides(pollers[1], "MaxBlockLag") = {}

LimiterChosen == pc \notin {"idle", "topology", "redis", "limiter"} /\ lim # NilLimiter

\* C10: the limiter Start chooses is the no-op limiter when
\* enable_backend_rate_limiter is false, else the Redis limiter exactly when
\* a Redis URL is configured (whatever use_redis says) and the local limiter
\* otherwise; use_redis without a Redis URL makes Start fail before it
\* chooses; and every backend built holds the one limiter chosen.
C10_BackendLimiterSelection ==
    /\ LimiterChosen =>
            lim.kind = IF ~config.RateLimit.EnableBackendRateLimiter THEN "noop"
                       ELSE IF config.Redis.URL # "" THEN "redis" ELSE "local"
    /\ (pc # "idle" /\ config.RateLimit.UseRedis /\ config.Redis.URL = "") =>
            /\ lim = NilLimiter
            /\ pc \in {"topology", "redis", "returned"}
            /\ pc = "returned" => Failed
    /\ limAllocs <= 1
    /\ \A b \in DOMAIN backendsByName : backendsByName[b].rateLimiter = lim

C10_Witness ==
    /\ Started
    /\ config.RateLimit.EnableBackendRateLimiter
    /\ ~config.RateLimit.UseRedis
    /\ config.Redis.URL # ""
    /\ lim.kind = "redis"
    /\ Cardinality(DOMAIN backendsByName) > 1
    /\ \A b \in DOMAIN backendsByName : backendsByName[b].rateLimiter = lim


LVCRunning == blockNumLVC = "running" \/ gasPriceLVC = "running"

\* C11: when Start has returned an error, nothing it started is still
\* active: no LVC refresher is running, no listener or metrics goroutine was
\* launched, and no consensus poller is running.
C11_FailedStartLeavesNothingRunning ==
    Failed =>
        /\ ~LVCRunning
        /\ rpcListener = "none" /\ wsListener = "none" /\ metricsServer = "none"
        /\ \A i \in DOMAIN pollers : pollers[i].state # "running"

\* C13: from the successful return of Start until the shutdown function has
\* stopped them, the chain client the LVCs were built over is open whenever
\* an LVC is running.
C13_ChainClientOpenWhileLVCsRun ==
    (Started /\ LVCRunning) => ethClient = "open"


\* The groups a listener that is accepting can forward a request through
Routable ==
    {config.RPCMethodMappings[m] : m \in {x \in DOMAIN config.RPCMethodMappings :
                                            rpcListener = "listening"}}
    \cup {g \in {wsBackendGroup} : g # 0 /\ wsListener = "listening"}

\* C12: no request is forwarded through a consensus-aware group whose
\* Consensus field is still nil, and no listener accepts requests for such a
\* group: the poller of every consensus-aware group is attached before the
\* first request can be accepted and forwarded to it.
C12_PollerAttachedBeforeRequests ==
    /\ (routed.bg # 0 /\ routed.bg \in AwareGroups) => routed.consensus # 0
    /\ srv = "created" =>
            \A g \in Routable \cap AwareGroups : backendGroups[g].Consensus # 0

\* C12, its first half alone: a request was forwarded through a
\* consensus-aware group only with the group's poller attached.
C12_NoRequestWithoutPoller ==
    (routed.bg # 0 /\ routed.bg \in AwareGroups) => routed.consensus # 0

====
